---- MODULE Spec2Model ----
(***************************************************************************)
(* Model of src/net/atlas/mod.rs: AtlasConfig, Attachment and              *)
(* AttachmentInstance (get_stacks_block_id, try_new_from_value).           *)
(*                                                                         *)
(* Clarity values are records [type, data, fields]: `data` is a sequence   *)
(* of integers (limbs of an integer, bytes of a buffer), `fields` the      *)
(* name/value entries of a tuple.  A u128 is eight 16-bit limbs, least     *)
(* significant first, so that `as u32` keeps exactly its width.            *)
(***************************************************************************)
EXTENDS Integers, Sequences, FiniteSets, TLC

VARIABLES calls, results, block_ids, pc, config, content, new_attachment

vars == <<calls, results, block_ids, pc, config, content, new_attachment>>

(***************************************************************************)
(* Bounds of the model.                                                    *)
(***************************************************************************)
MaxHeight == 1
MaxBufLen == 21
MaxContentLen == 3
MaxConfigSize == 2

(***************************************************************************)
(* Integer widths.                                                         *)
(***************************************************************************)
LimbBase == 2 ^ 16
LimbMax == LimbBase - 1
U128_LIMBS == 128 \div 16
U32_LIMBS == 32 \div 16

Zeros(n) == [i \in 1..n |-> 0]

\* `x as u32` on a u128: the low 32 bits.
AsU32(n) == SubSeq(n, 1, U32_LIMBS)

\* the u128 with the same numeric value as a u32
U32ToU128(x) == x \o Zeros(U128_LIMBS - U32_LIMBS)

FitsU32(n) == \A i \in (U32_LIMBS + 1)..U128_LIMBS : n[i] = 0

\* u128 from its four low limbs and one value repeated in the four high ones
U128Of(l1, l2, l3, hi) == <<l1, l2, l3, hi, hi, hi, hi, hi>>

U128Samples ==
    { U128Of(7, 0, 0, 0),                   \* 7
      U128Of(LimbMax, LimbMax, 0, 0),       \* 2^32 - 1
      U128Of(0, 0, 1, 0),                   \* 2^32
      U128Of(7, 0, 1, 0),                   \* 2^32 + 7
      U128Of(LimbMax, LimbMax, LimbMax, LimbMax) }  \* 2^128 - 1

(***************************************************************************)
(* vm::types::Value                                                        *)
(***************************************************************************)
ValueUInt(n) == [type |-> "UInt", data |-> n, fields |-> <<>>]
ValueInt(n) == [type |-> "Int", data |-> n, fields |-> <<>>]
ValueBool(b) == [type |-> "Bool", data |-> <<IF b THEN 1 ELSE 0>>, fields |-> <<>>]
Buffer(bytes) == [type |-> "Buffer", data |-> bytes, fields |-> <<>>]
StringASCII(bytes) == [type |-> "StringASCII", data |-> bytes, fields |-> <<>>]
Tuple(fs) == [type |-> "Tuple", data |-> <<>>, fields |-> fs]
\* a value whose consensus serialization cannot succeed
Invalid == [type |-> "Invalid", data |-> <<>>, fields |-> <<>>]

Field(n, v) == [name |-> n, value |-> v]

\* TupleData::get: the value bound to `name`, or an error
TupleGet(t, name) ==
    LET idx == {i \in 1..Len(t.fields) : t.fields[i].name = name}
    IN IF idx = {} THEN <<>> ELSE <<t.fields[CHOOSE i \in idx : TRUE].value>>

(***************************************************************************)
(* util::hash::Hash160                                                     *)
(***************************************************************************)
HASH160_LEN == 20

Hash160_empty == Zeros(HASH160_LEN)

Hash160_from_bytes(bytes) ==
    IF Len(bytes) = HASH160_LEN THEN <<bytes>> ELSE <<>>

(***************************************************************************)
(* net::StacksMessageCodec for Value, util::hash::to_hex                   *)
(***************************************************************************)
RECURSIVE Flatten(_)
Flatten(ss) == IF ss = <<>> THEN <<>> ELSE Head(ss) \o Flatten(Tail(ss))

\* big-endian bytes of an integer given as 16-bit limbs
LimbsToBytesBE(n) ==
    Flatten([i \in 1..Len(n) |->
                LET l == n[Len(n) + 1 - i] IN <<l \div 256, l % 256>>])

\* a length as a 4-byte big-endian integer
LenBytes(k) == <<0, 0, k \div 256, k % 256>>

NameBytes(name) ==
    CASE name = "name" -> <<110, 97, 109, 101>>
      [] name = "op" -> <<111, 112>>
      [] OTHER -> <<120>>

RECURSIVE Serializable(_)
Serializable(v) ==
    /\ v.type # "Invalid"
    /\ \A i \in 1..Len(v.fields) : Serializable(v.fields[i].value)

RECURSIVE SerializeBytes(_)
SerializeBytes(v) ==
    CASE v.type = "Int" -> <<0>> \o LimbsToBytesBE(v.data)
      [] v.type = "UInt" -> <<1>> \o LimbsToBytesBE(v.data)
      [] v.type = "Buffer" -> <<2>> \o LenBytes(Len(v.data)) \o v.data
      [] v.type = "Bool" -> IF v.data = <<1>> THEN <<3>> ELSE <<4>>
      [] v.type = "StringASCII" -> <<13>> \o LenBytes(Len(v.data)) \o v.data
      [] v.type = "Tuple" ->
            <<12>> \o LenBytes(Len(v.fields)) \o
            Flatten([i \in 1..Len(v.fields) |->
                        <<Len(NameBytes(v.fields[i].name))>>
                        \o NameBytes(v.fields[i].name)
                        \o SerializeBytes(v.fields[i].value)])
      [] OTHER -> <<>>

\* Value::consensus_serialize into an empty vector: Ok(bytes) or Err
consensus_serialize(v) ==
    IF Serializable(v) THEN [ok |-> TRUE, bytes |-> SerializeBytes(v)]
    ELSE [ok |-> FALSE, bytes |-> <<>>]

HexDigits == <<"0", "1", "2", "3", "4", "5", "6", "7",
               "8", "9", "a", "b", "c", "d", "e", "f">>

to_hex(bytes) ==
    Flatten([i \in 1..Len(bytes) |->
                <<HexDigits[(bytes[i] \div 16) + 1], HexDigits[(bytes[i] % 16) + 1]>>])

(***************************************************************************)
(* chainstate::stacks::StacksBlockHeader::make_index_block_hash            *)
(***************************************************************************)
make_index_block_hash(consensus_hash, block_header_hash) ==
    [digest_of |-> <<block_header_hash, consensus_hash>>]

(***************************************************************************)
(* AtlasConfig                                                             *)
(***************************************************************************)
DEFAULT_ATTACHMENTS_MAX_SIZE == 1048576

AtlasConfig_default ==
    [contracts |-> {"bns"}, attachments_max_size |-> DEFAULT_ATTACHMENTS_MAX_SIZE]

(***************************************************************************)
(* Attachment                                                              *)
(***************************************************************************)
\* mutant: the constructor cuts the content at the configured bound
Attachment_new_bounded(c) ==
    IF config # <<>> /\ Len(c) > config[1].attachments_max_size
    THEN [content |-> SubSeq(c, 1, config[1].attachments_max_size)]
    ELSE [content |-> c]

Attachment_new(c) == [content |-> c]

(***************************************************************************)
(* AttachmentInstance                                                      *)
(***************************************************************************)
\* mutant: the identifier leaves the consensus hash out
get_stacks_block_id_header_only(self) ==
    make_index_block_hash(self.block_header_hash, self.block_header_hash)

get_stacks_block_id(self) ==
    make_index_block_hash(self.consensus_hash, self.block_header_hash)

Ok(instance) == [kind |-> "Ok", inst |-> <<instance>>]
Err == [kind |-> "Err", inst |-> <<>>]
\* .expect() on an Err: the call does not return
Panic == [kind |-> "Panic", inst |-> <<>>]

\* mutant: the type of page-index is not checked
FieldsMatch_untyped_page(attachment_data) ==
    LET hash == TupleGet(attachment_data, "hash")
        page_index == TupleGet(attachment_data, "page-index")
        position_in_page == TupleGet(attachment_data, "position-in-page")
    IN /\ hash # <<>> /\ hash[1].type = "Buffer"
       /\ page_index # <<>>
       /\ position_in_page # <<>> /\ position_in_page[1].type = "UInt"

\* mutant: a tuple with fields beyond the expected ones does not match
FieldsMatch_exact(attachment_data) ==
    LET hash == TupleGet(attachment_data, "hash")
        page_index == TupleGet(attachment_data, "page-index")
        position_in_page == TupleGet(attachment_data, "position-in-page")
    IN /\ hash # <<>> /\ hash[1].type = "Buffer"
       /\ page_index # <<>> /\ page_index[1].type = "UInt"
       /\ position_in_page # <<>> /\ position_in_page[1].type = "UInt"
       /\ \A i \in 1..Len(attachment_data.fields) :
              attachment_data.fields[i].name
                 \in {"hash", "page-index", "position-in-page", "metadata"}

\* lines 97-101: the pattern the three required fields must match
FieldsMatch(attachment_data) ==
    LET hash == TupleGet(attachment_data, "hash")
        page_index == TupleGet(attachment_data, "page-index")
        position_in_page == TupleGet(attachment_data, "position-in-page")
    IN /\ hash # <<>> /\ hash[1].type = "Buffer"
       /\ page_index # <<>> /\ page_index[1].type = "UInt"
       /\ position_in_page # <<>> /\ position_in_page[1].type = "UInt"

\* mutant: the empty buffer is not special-cased
ParseContentHash_no_empty(data) == Hash160_from_bytes(data)

\* lines 102-109: Some(hash) or None (the early return Err)
ParseContentHash(data) ==
    IF data = <<>> THEN <<Hash160_empty>> ELSE Hash160_from_bytes(data)

\* mutant: the whole inner tuple is serialized instead of its metadata field
ParseMetadata_whole_tuple(attachment_data) ==
    LET metadata == TupleGet(attachment_data, "metadata")
    IN IF metadata # <<>>
       THEN LET serialized == consensus_serialize(attachment_data)
            IN IF serialized.ok
               THEN [ok |-> TRUE, str |-> to_hex(serialized.bytes)]
               ELSE [ok |-> FALSE, str |-> <<>>]
       ELSE [ok |-> TRUE, str |-> <<>>]

\* lines 110-119: Ok(hex string), or the panic of .expect()
ParseMetadata(attachment_data) ==
    LET metadata == TupleGet(attachment_data, "metadata")
    IN IF metadata # <<>>
       THEN LET serialized == consensus_serialize(metadata[1])
            IN IF serialized.ok
               THEN [ok |-> TRUE, str |-> to_hex(serialized.bytes)]
               ELSE [ok |-> FALSE, str |-> <<>>]
       ELSE [ok |-> TRUE, str |-> <<>>]

\* mutant: the two page coordinates are exchanged
MakeInstance_swapped(content_hash, page_index, position_in_page, metadata, contract_id, consensus_hash, block_header_hash, block_height) ==
    [consensus_hash |-> consensus_hash,
     block_header_hash |-> block_header_hash,
     content_hash |-> content_hash,
     page_index |-> AsU32(position_in_page),
     position_in_page |-> AsU32(page_index),
     block_height |-> block_height,
     metadata |-> metadata,
     contract_id |-> contract_id]

\* lines 120-129: the struct literal
MakeInstance(content_hash, page_index, position_in_page, metadata, contract_id, consensus_hash, block_header_hash, block_height) ==
    [consensus_hash |-> consensus_hash,
     block_header_hash |-> block_header_hash,
     content_hash |-> content_hash,
     page_index |-> AsU32(page_index),
     position_in_page |-> AsU32(position_in_page),
     block_height |-> block_height,
     metadata |-> metadata,
     contract_id |-> contract_id]

\* mutant: the metadata is serialized before the hash is checked
try_new_from_value_metadata_first(value, contract_id, consensus_hash, block_header_hash, block_height) ==
    IF value.type = "Tuple"
    THEN LET attachment_field == TupleGet(value, "attachment")
         IN IF attachment_field # <<>> /\ attachment_field[1].type = "Tuple"
            THEN LET attachment_data == attachment_field[1]
                 IN IF FieldsMatch(attachment_data)
                    THEN LET content_hash ==
                                 ParseContentHash(TupleGet(attachment_data, "hash")[1].data)
                             metadata == ParseMetadata(attachment_data)
                         IN IF ~metadata.ok THEN Panic
                            ELSE IF content_hash = <<>> THEN Err
                            ELSE Ok(MakeInstance(
                                     content_hash[1],
                                     TupleGet(attachment_data, "page-index")[1].data,
                                     TupleGet(attachment_data, "position-in-page")[1].data,
                                     metadata.str,
                                     contract_id, consensus_hash,
                                     block_header_hash, block_height))
                    ELSE Err
            ELSE Err
    ELSE Err

try_new_from_value(value, contract_id, consensus_hash, block_header_hash, block_height) ==
    IF value.type = "Tuple"
    THEN LET attachment_field == TupleGet(value, "attachment")
         IN IF attachment_field # <<>> /\ attachment_field[1].type = "Tuple"
            THEN LET attachment_data == attachment_field[1]
                 IN IF FieldsMatch(attachment_data)
                    THEN LET content_hash ==
                                 ParseContentHash(TupleGet(attachment_data, "hash")[1].data)
                             metadata == ParseMetadata(attachment_data)
                         IN IF content_hash = <<>> THEN Err
                            ELSE IF ~metadata.ok THEN Panic
                            ELSE Ok(MakeInstance(
                                     content_hash[1],
                                     TupleGet(attachment_data, "page-index")[1].data,
                                     TupleGet(attachment_data, "position-in-page")[1].data,
                                     metadata.str,
                                     contract_id, consensus_hash,
                                     block_header_hash, block_height))
                    ELSE Err
            ELSE Err
    ELSE Err

(***************************************************************************)
(* Inputs.                                                                 *)
(***************************************************************************)
Fill(n, b) == [i \in 1..n |-> b]

BufLens == {0, 1} \cup ((HASH160_LEN - 1)..MaxBufLen)

BufferSamples == {Fill(n, 171) : n \in BufLens} \cup {Fill(HASH160_LEN, 0)}

\* zero or one entry for a field of the inner tuple
HashOptions ==
    {<<>>, <<Field("hash", ValueUInt(U128Of(7, 0, 0, 0)))>>,
     <<Field("hash", StringASCII(Fill(HASH160_LEN, 97)))>>}
    \cup {<<Field("hash", Buffer(b))>> : b \in BufferSamples}

UIntOptions(name, samples) ==
    {<<>>, <<Field(name, ValueInt(U128Of(7, 0, 0, 0)))>>}
    \cup {<<Field(name, ValueUInt(n))>> : n \in samples}

PositionSamples == {U128Of(LimbMax, LimbMax, 0, 0), U128Of(7, 0, 1, 0)}

MetadataTuple(v) == Tuple(<<Field("name", Buffer(<<105, 100>>)), Field("op", v)>>)

MetadataOptions ==
    {<<>>,
     <<Field("metadata", ValueUInt(U128Of(7, 0, 0, 0)))>>,
     <<Field("metadata", MetadataTuple(ValueBool(TRUE)))>>,
     <<Field("metadata", Invalid)>>,
     <<Field("metadata", MetadataTuple(Invalid))>>}

ExtraOptions == {<<>>, <<Field("x", ValueBool(TRUE))>>}

\* entries are kept in the order of the names, as in TupleData's BTreeMap
InnerTuples ==
    {Tuple(h \o m \o p \o q \o x) :
        h \in HashOptions, m \in MetadataOptions,
        p \in UIntOptions("page-index", U128Samples),
        q \in UIntOptions("position-in-page", PositionSamples),
        x \in ExtraOptions}

Values ==
    {Tuple(<<Field("attachment", t)>> \o x) : t \in InnerTuples, x \in ExtraOptions}
    \cup {ValueUInt(U128Of(7, 0, 0, 0)), ValueBool(FALSE), Buffer(Fill(HASH160_LEN, 171)),
          Tuple(<<>>), Tuple(<<Field("x", ValueBool(TRUE))>>),
          Tuple(<<Field("attachment", ValueUInt(U128Of(7, 0, 0, 0)))>>),
          Tuple(<<Field("attachment", Buffer(Fill(HASH160_LEN, 171)))>>)}

ContractIds == {"bns", "other"}
ConsensusHashes == {"ch1", "ch2"}
BlockHeaderHashes == {"bh1", "bh2"}
Heights == 0..MaxHeight

Call(v, cid, ch, bh, h) ==
    [value |-> v, contract_id |-> cid, consensus_hash |-> ch,
     block_header_hash |-> bh, block_height |-> h]

Calls ==
    {Call(v, cid, ch, bh, h) :
        v \in Values, cid \in ContractIds, ch \in ConsensusHashes,
        bh \in BlockHeaderHashes, h \in Heights}

\* the event of a well-formed name registration
GoodValue ==
    Tuple(<<Field("attachment",
                  Tuple(<<Field("hash", Buffer(Fill(HASH160_LEN, 171))),
                          Field("page-index", ValueUInt(U128Of(7, 0, 0, 0))),
                          Field("position-in-page", ValueUInt(U128Of(7, 0, 0, 0)))>>))>>)

GoodCalls ==
    {Call(GoodValue, "bns", ch, bh, h) :
        ch \in ConsensusHashes, bh \in BlockHeaderHashes, h \in Heights}

RECURSIVE ByteSeqs(_)
ByteSeqs(n) ==
    IF n = 0 THEN {<<>>}
    ELSE ByteSeqs(n - 1) \cup
         {Append(s, b) : s \in {t \in ByteSeqs(n - 1) : Len(t) = n - 1}, b \in {0, 255}}

Contents == ByteSeqs(MaxContentLen)

\* an AtlasConfig built by a struct literal: attachments_max_size is configurable
Configs == {[contracts |-> {"bns"}, attachments_max_size |-> n] : n \in 0..MaxConfigSize}

(***************************************************************************)
(* State machine.  The inputs of the functions are drawn in Init; the      *)
(* actions apply the functions to them.                                    *)
(***************************************************************************)
InitEvents ==
    /\ calls \in {<<c>> : c \in Calls} \cup {<<c, d>> : c \in GoodCalls, d \in GoodCalls}
    /\ config = <<AtlasConfig_default>>
    /\ content = <<>>

InitAttachment ==
    /\ calls = <<>>
    /\ config \in {<<>>} \cup {<<c>> : c \in Configs}
    /\ content \in {<<c>> : c \in Contents}

Init ==
    /\ InitEvents \/ InitAttachment
    /\ results = <<>>
    /\ block_ids = [k \in 1..Len(calls) |-> <<>>]
    /\ pc = "running"
    /\ new_attachment = <<>>

\* AtlasConfig::default()
AtlasConfigDefault ==
    /\ config = <<>>
    /\ config' = <<AtlasConfig_default>>
    /\ UNCHANGED <<calls, results, block_ids, pc, content, new_attachment>>

\* Attachment::new(content)
AttachmentNew ==
    /\ content # <<>>
    /\ new_attachment = <<>>
    /\ new_attachment' = <<Attachment_new(content[1])>>
    /\ UNCHANGED <<calls, results, block_ids, pc, config, content>>

\* AttachmentInstance::try_new_from_value on the next event of the block
TryNewFromValue ==
    /\ pc = "running"
    /\ Len(results) < Len(calls)
    /\ LET c == calls[Len(results) + 1]
           r == try_new_from_value(c.value, c.contract_id, c.consensus_hash,
                                   c.block_header_hash, c.block_height)
       IN /\ results' = Append(results, r)
          /\ pc' = IF r.kind = "Panic" THEN "aborted" ELSE pc
    /\ UNCHANGED <<calls, block_ids, config, content, new_attachment>>

\* AttachmentInstance::get_stacks_block_id on the instance of event k
GetStacksBlockId(k) ==
    /\ pc = "running"
    /\ k <= Len(results)
    /\ results[k].kind = "Ok"
    /\ block_ids[k] = <<>>
    /\ block_ids' = [block_ids EXCEPT ![k] = <<get_stacks_block_id(results[k].inst[1])>>]
    /\ UNCHANGED <<calls, results, pc, config, content, new_attachment>>

Next ==
    \/ AtlasConfigDefault
    \/ AttachmentNew
    \/ TryNewFromValue
    \/ \E k \in 1..Len(calls) : GetStacksBlockId(k)

Spec == Init /\ [][Next]_vars

(***************************************************************************)
(* Vocabulary of the properties: the shape of a value, read off the value  *)
(* itself.                                                                 *)
(***************************************************************************)
HasField(t, name) == \E i \in 1..Len(t.fields) : t.fields[i].name = name

FieldOf(t, name) == t.fields[CHOOSE i \in 1..Len(t.fields) : t.fields[i].name = name].value

HasTyped(t, name, type) == HasField(t, name) /\ FieldOf(t, name).type = type

\* outer tuple with an `attachment` tuple holding a buffer `hash` and
\* unsigned-integer `page-index` and `position-in-page`
ExpectedShape(v) ==
    /\ v.type = "Tuple"
    /\ HasTyped(v, "attachment", "Tuple")
    /\ HasTyped(FieldOf(v, "attachment"), "hash", "Buffer")
    /\ HasTyped(FieldOf(v, "attachment"), "page-index", "UInt")
    /\ HasTyped(FieldOf(v, "attachment"), "position-in-page", "UInt")

Inner(v) == FieldOf(v, "attachment")
HashOf(v) == FieldOf(Inner(v), "hash").data
PageIndexOf(v) == FieldOf(Inner(v), "page-index").data
PositionOf(v) == FieldOf(Inner(v), "position-in-page").data
HasMetadata(v) == HasField(Inner(v), "metadata")
MetadataOf(v) == FieldOf(Inner(v), "metadata")

RECURSIVE WellFormedValue(_)
WellFormedValue(v) ==
    /\ v.type \in {"Int", "UInt", "Bool", "Buffer", "StringASCII", "Tuple"}
    /\ \A i \in 1..Len(v.fields) : WellFormedValue(v.fields[i].value)

MetadataFails(v) == HasMetadata(v) /\ ~WellFormedValue(MetadataOf(v))

HashLenOk(v) == Len(HashOf(v)) \in {0, 20}

ExpectedNames == {"hash", "page-index", "position-in-page", "metadata"}

HasExtraFields(v) ==
    \/ \E i \in 1..Len(v.fields) : v.fields[i].name # "attachment"
    \/ \E i \in 1..Len(Inner(v).fields) : Inner(v).fields[i].name \notin ExpectedNames

Returned == 1..Len(results)

(***************************************************************************)
(* Properties.                                                             *)
(***************************************************************************)

\* C1: for a value of the expected shape whose metadata is absent or
\* serializable, a 20-byte hash buffer gives Ok with content_hash equal to
\* those bytes, an empty buffer gives Ok with content_hash Hash160::empty()
\* (twenty zero bytes), and a buffer of any other length gives Err.
C1_HashByLength ==
    \A k \in Returned :
        LET v == calls[k].value
            r == results[k]
        IN (ExpectedShape(v) /\ ~MetadataFails(v)) =>
              /\ Len(HashOf(v)) = 20 =>
                    r.kind = "Ok" /\ r.inst[1].content_hash = HashOf(v)
              /\ Len(HashOf(v)) = 0 =>
                    r.kind = "Ok" /\ r.inst[1].content_hash = [i \in 1..20 |-> 0]
              /\ Len(HashOf(v)) \notin {0, 20} => r.kind = "Err"

C1_Witness ==
    \E k \in Returned :
        /\ ExpectedShape(calls[k].value)
        /\ HashOf(calls[k].value) = <<>>
        /\ results[k].kind = "Ok"
        /\ results[k].inst[1].content_hash = [i \in 1..20 |-> 0]

\* C2: a well-formed value whose page-index or position-in-page exceeds
\* 2^32 - 1 gives Err, and no returned instance has a page_index or
\* position_in_page different from the on-chain integer it was read from.
C2_OutOfRangeRejected ==
    \A k \in Returned :
        LET v == calls[k].value
            r == results[k]
        IN ExpectedShape(v) =>
              /\ (~FitsU32(PageIndexOf(v)) \/ ~FitsU32(PositionOf(v))) => r.kind = "Err"
              /\ r.kind = "Ok" =>
                    /\ U32ToU128(r.inst[1].page_index) = PageIndexOf(v)
                    /\ U32ToU128(r.inst[1].position_in_page) = PositionOf(v)

\* C3: a value that is not a tuple, or lacks an `attachment` tuple, or whose
\* `hash`, `page-index` or `position-in-page` is absent or of another type,
\* gives Err: no panic, no instance.
C3_MalformedIsErr ==
    \A k \in Returned :
        ~ExpectedShape(calls[k].value) =>
            results[k].kind = "Err" /\ results[k].inst = <<>>

C3_Witness ==
    \E k \in Returned :
        LET v == calls[k].value
        IN /\ v.type = "Tuple"
           /\ HasTyped(v, "attachment", "Tuple")
           /\ HasTyped(Inner(v), "hash", "Buffer")
           /\ HasTyped(Inner(v), "page-index", "Int")
           /\ HasTyped(Inner(v), "position-in-page", "UInt")
           /\ results[k].kind = "Err"

\* C4 as claimed: a value carrying fields besides `attachment`, or inner
\* fields besides hash, page-index, position-in-page and metadata, gives Err.
C4_ExtraFieldsRejected ==
    \A k \in Returned :
        (calls[k].value.type = "Tuple"
            /\ HasTyped(calls[k].value, "attachment", "Tuple")
            /\ HasExtraFields(calls[k].value))
        => results[k].kind = "Err"

\* C4 amended: additional fields are ignored.  A value with additional
\* outer or inner fields whose required fields are present and well typed
\* and whose hash buffer is empty or 20 bytes long is not rejected: it gives
\* Ok (or the fatal abort when its metadata cannot be serialized).
C4_ExtraFieldsIgnored ==
    \A k \in Returned :
        LET v == calls[k].value
        IN (ExpectedShape(v) /\ HasExtraFields(v) /\ HashLenOk(v)) =>
              results[k].kind = IF MetadataFails(v) THEN "Panic" ELSE "Ok"

C4_Witness ==
    \E k \in Returned :
        LET v == calls[k].value
        IN /\ ExpectedShape(v)
           /\ \E i \in 1..Len(v.fields) : v.fields[i].name # "attachment"
           /\ \E i \in 1..Len(Inner(v).fields) : Inner(v).fields[i].name \notin ExpectedNames
           /\ results[k].kind = "Ok"

\* the hex text of the consensus serialization of the unsigned integer 7
HexOfUInt7 ==
    <<"0", "1">> \o [i \in 1..30 |-> "0"] \o <<"0", "7">>

\* C5: on success the instance's metadata is the hex encoding of the
\* consensus serialization of the `metadata` field when it is present and
\* the empty string when it is absent; a metadata field of any type never
\* causes Err.
C5_MetadataHex ==
    \A k \in Returned :
        LET v == calls[k].value
            r == results[k]
        IN /\ r.kind = "Ok" =>
                /\ HasMetadata(v) =>
                      /\ r.inst[1].metadata = to_hex(SerializeBytes(MetadataOf(v)))
                      /\ Len(r.inst[1].metadata) >= 2
                /\ ~HasMetadata(v) => r.inst[1].metadata = <<>>
                /\ (HasMetadata(v) /\ MetadataOf(v) = ValueUInt(U128Of(7, 0, 0, 0)))
                      => r.inst[1].metadata = HexOfUInt7
           /\ (ExpectedShape(v) /\ HashLenOk(v) /\ HasMetadata(v)) => r.kind # "Err"

C5_Witness ==
    \E k \in Returned :
        /\ results[k].kind = "Ok"
        /\ HasMetadata(calls[k].value)
        /\ MetadataOf(calls[k].value).type = "Tuple"
        /\ Len(results[k].inst[1].metadata) > 2

\* C6: the call aborts exactly when the value has the expected shape, its
\* hash buffer is empty or 20 bytes long, and a `metadata` field is present
\* whose serialization fails; a malformed hash with unserializable metadata
\* gives Err.
C6_FatalOnlyOnMetadata ==
    \A k \in Returned :
        LET v == calls[k].value
        IN /\ results[k].kind = "Panic" <=>
                (ExpectedShape(v) /\ HashLenOk(v) /\ MetadataFails(v))
           /\ (ExpectedShape(v) /\ ~HashLenOk(v) /\ MetadataFails(v)) =>
                results[k].kind = "Err"
           /\ pc = "aborted" <=> \E j \in Returned : results[j].kind = "Panic"

C6_Witness ==
    /\ pc = "aborted"
    /\ \E k \in Returned :
          /\ results[k].kind = "Panic"
          /\ HashLenOk(calls[k].value)
          /\ MetadataFails(calls[k].value)

\* C7 as claimed: every constructed Attachment has content no longer than
\* the configured attachments_max_size.
C7_ContentBounded ==
    (new_attachment # <<>> /\ config # <<>>) =>
        Len(new_attachment[1].content) <= config[1].attachments_max_size

\* C7 amended: Attachment::new enforces no bound.  It wraps every byte
\* sequence unchanged, also one longer than attachments_max_size.
C7_NewKeepsContent ==
    new_attachment # <<>> => new_attachment[1].content = content[1]

C7_Witness ==
    /\ new_attachment # <<>>
    /\ config # <<>>
    /\ Len(new_attachment[1].content) = config[1].attachments_max_size + 1

BothIds == Len(results) = 2 /\ block_ids[1] # <<>> /\ block_ids[2] # <<>>

\* C8 as claimed: two instances get the same block identifier iff they
\* agree on block_height, consensus_hash and block_header_hash.
C8_IdFromAllThree ==
    BothIds =>
        LET a == results[1].inst[1]
            b == results[2].inst[1]
        IN block_ids[1] = block_ids[2] <=>
              /\ a.block_height = b.block_height
              /\ a.consensus_hash = b.consensus_hash
              /\ a.block_header_hash = b.block_header_hash

\* C8 amended: the block identifier is computed from consensus_hash and
\* block_header_hash only.  Two instances get the same identifier iff they
\* agree on these two; block_height plays no part.
C8_IdFromHashes ==
    BothIds =>
        LET a == results[1].inst[1]
            b == results[2].inst[1]
        IN block_ids[1] = block_ids[2] <=>
              /\ a.consensus_hash = b.consensus_hash
              /\ a.block_header_hash = b.block_header_hash

C8_Witness ==
    /\ BothIds
    /\ block_ids[1] = block_ids[2]
    /\ results[1].inst[1].block_height # results[2].inst[1].block_height

\* C10: a returned instance carries contract_id, consensus_hash,
\* block_header_hash and block_height equal to the arguments of the call;
\* for coordinates within 32-bit range its page_index and position_in_page
\* equal the value's fields; a call yields at most one instance, and one
\* only when it returns Ok.
C10_ContextCarried ==
    \A k \in Returned :
        LET c == calls[k]
            r == results[k]
        IN /\ Len(r.inst) <= 1
           /\ Len(r.inst) = 1 <=> r.kind = "Ok"
           /\ r.kind = "Ok" =>
                /\ r.inst[1].contract_id = c.contract_id
                /\ r.inst[1].consensus_hash = c.consensus_hash
                /\ r.inst[1].block_header_hash = c.block_header_hash
                /\ r.inst[1].block_height = c.block_height
                /\ FitsU32(PageIndexOf(c.value)) =>
                      U32ToU128(r.inst[1].page_index) = PageIndexOf(c.value)
                /\ FitsU32(PositionOf(c.value)) =>
                      U32ToU128(r.inst[1].position_in_page) = PositionOf(c.value)

C10_Witness ==
    \E k \in Returned :
        /\ results[k].kind = "Ok"
        /\ calls[k].contract_id = "other"
        /\ calls[k].block_height = 1
        /\ results[k].inst[1].block_height = 1
        /\ FitsU32(PageIndexOf(calls[k].value))
        /\ FitsU32(PositionOf(calls[k].value))
        /\ PageIndexOf(calls[k].value) # PositionOf(calls[k].value)

====
